---- MODULE Spec2Model ----
(***************************************************************************)
(* Model of TransactionsService.perform_transaction                        *)
(* (backend/services/transactions_service.py).                             *)
(*                                                                         *)
(* The committed store holds the four collections of the service           *)
(* (accounts, users, transactions, notifications).  Every call of          *)
(* perform_transaction is a process: it validates the request against      *)
(* four documents read one after the other outside any session, then runs  *)
(* callback inside session.with_transaction.  The writes of a unit are     *)
(* buffered in the unit and become visible together at commit; a write to  *)
(* a document that another open unit has written, or that was committed    *)
(* after the unit's snapshot, is a write conflict.  On a write conflict,   *)
(* as on any other transient error, the unit is aborted and                *)
(* with_transaction runs callback again while its time limit lasts.        *)
(*                                                                         *)
(* Amounts and balances are whole numbers: on them the float arithmetic    *)
(* of the code ($inc by float(amount)) is exact.                           *)
(***************************************************************************)
EXTENDS Integers, Sequences, FiniteSets, TLC

\* ----------------------------------------------------------------- bounds
\* Number of perform_transaction calls that run concurrently.
NumCalls == 2
\* Number of times with_transaction runs callback before its time limit ends.
MaxAttempts == 2

\* ------------------------------------------------------ program constants
\* transaction_limit = float(500)
TransactionLimit == 500
\* "$slice": -20 of the RecentTransactions push
RecentCap == 20
\* [:20] of get_recent_transactions_for_user
QueryLimit == 20

Procs == 1..NumCalls

VARIABLES
    accounts,       \* accounts collection: _id -> document
    users,          \* users collection: _id -> document
    transactions,   \* transactions collection: set of documents
    notifications,  \* notifications collection: set of documents
    pc,             \* position of each call
    req,            \* arguments of each call
    attempt,        \* number of times with_transaction has started callback
    unit,           \* the open atomic unit of each call (buffered writes)
    result,         \* value returned by perform_transaction
    outcome,        \* why the call ended (the logged error, or "committed")
    now,            \* the time datetime.now(timezone.utc) returns
    answer,         \* what the read operation (get_recent_transactions_for_user,
                    \* is_valid_user or the endpoint over them) returned, when
                    \* it was the last operation to end
    reading         \* the read operation that is between two of its reads of
                    \* the store, with what it has read

store == <<accounts, users, transactions, notifications>>
vars == <<accounts, users, transactions, notifications,
          pc, req, attempt, unit, result, outcome, now, answer, reading>>

\* ------------------------------------------------------------ initial data
AccountIds == {"a1", "a2", "a3", "a4", "a5"}
UserIds == {"u1", "u2"}

Account(num, type, status, bal) ==
    [AccountNumber |-> num, AccountType |-> type, AccountStatus |-> status,
     AccountBalance |-> bal, AccountCurrency |-> "USD"]

InitAccounts ==
    [a \in AccountIds |->
        CASE a = "a1" -> Account("n1", "Checking", "Open", 1000)
          [] a = "a2" -> Account("n2", "Savings", "Open", 60)
          [] a = "a3" -> Account("n3", "Checking", "Open", 200)
          [] a = "a4" -> Account("n4", "Savings", "Open", 0)
          [] a = "a5" -> Account("n5", "Savings", "Closed", 700)]

\* Time is logical: the documents of earlier runs are dated 1..RecentCap.
FirstTime == RecentCap + 1
\* The clock is followed for one tick.
LastTime == FirstTime + 1

\* A reference to a transaction of an earlier run of the service.
OldEntry(k) == [TransactionId |-> <<0, k>>, Date |-> k]

\* The transaction of an earlier run that OldEntry(k) refers to: an internal
\* transfer of bob.  The service never writes the transaction documents of
\* earlier calls, so these are not carried in the variable transactions,
\* which holds the documents inserted since the initial state.
OldTransaction(k) ==
    [_id |-> <<0, k>>,
     TransactionAmount |-> 10,
     TransactionType |-> "AccountTransfer",
     TransactionInternal |-> TRUE,
     TransactionPaymentMethod |-> <<>>,
     TransactionSender |->
        [UserId |-> "u2", UserName |-> "bob",
         AccountId |-> "a4", AccountNumber |-> "n4", AccountType |-> "Savings"],
     TransactionReceiver |->
        [UserId |-> "u2", UserName |-> "bob",
         AccountId |-> "a3", AccountNumber |-> "n3", AccountType |-> "Checking"],
     TransactionDates |->
        <<[TransactionDate |-> k, TransactionDateType |-> "TransactionInitiatedDate"],
          [TransactionDate |-> k, TransactionDateType |-> "TransactionCompletedDate"],
          [TransactionDate |-> k, TransactionDateType |-> "TransactionNotifiedDate"]>>,
     TransactionStatus |-> "Notified",
     TransactionCompleted |-> TRUE,
     TransactionNotified |-> TRUE]

OldTransactions == {OldTransaction(k) : k \in 1..RecentCap}

OldEntries(n) == [k \in 1..n |-> OldEntry(k)]

InitUsers ==
    [u \in UserIds |->
        CASE u = "u1" -> [UserName |-> "alice", RecentTransactions |-> <<>>]
          [] u = "u2" -> [UserName |-> "bob",
                          RecentTransactions |-> OldEntries(RecentCap)]]

\* ----------------------------------------------------------------- requests
\* A number, or a string float() parses, with the float it gives.
NumAmount(v) == [k |-> "num", v |-> v]
\* A string float() refuses, such as "abc".
BadAmount == [k |-> "bad", v |-> 0]
\* None, which float() does not accept as an argument.
NoneAmount == [k |-> "none", v |-> 0]

\* A string that is not the 24 hexadecimal digits of an ObjectId.
MalformedIds == {"zz"}

\* The arguments of perform_transaction, and who calls it: "core" is a direct
\* call, as the test driver makes; the other callers are the two endpoints.
Request(s, r, su, sun, ru, run, amt, tt, pm) ==
    [account_id_receiver |-> r, account_id_sender |-> s,
     transaction_amount |-> amt,
     sender_user_id |-> su, sender_user_name |-> sun,
     sender_account_number |-> IF s \in AccountIds THEN InitAccounts[s].AccountNumber ELSE "n0",
     sender_account_type |-> IF s \in AccountIds THEN InitAccounts[s].AccountType ELSE "Checking",
     receiver_user_id |-> ru, receiver_user_name |-> run,
     receiver_account_number |-> IF r \in AccountIds THEN InitAccounts[r].AccountNumber ELSE "n0",
     receiver_account_type |-> IF r \in AccountIds THEN InitAccounts[r].AccountType ELSE "Checking",
     transaction_type |-> tt, payment_method |-> pm, caller |-> "core"]

\* A request whose claimed names, numbers and types are the stored ones.
Transfer(s, r, su, ru, v) ==
    Request(s, r, su, InitUsers[su].UserName, ru, InitUsers[ru].UserName,
            NumAmount(v), "AccountTransfer", "N/A")

Payment(s, r, su, ru, v, pm) ==
    Request(s, r, su, InitUsers[su].UserName, ru, InitUsers[ru].UserName,
            NumAmount(v), "DigitalPayment", pm)

\* POST /perform-account-transfer with the fields of r: the type is
\* AccountTransfer and payment_method is left at its default.
ViaTransferEndpoint(r) ==
    [r EXCEPT !.caller = "transfer_endpoint",
              !.transaction_type = "AccountTransfer",
              !.payment_method = "N/A"]

\* POST /perform-digital-payment with the fields of r; a payment_method of ""
\* stands for a body without the field (data.get returns None).
ViaPaymentEndpoint(r) ==
    [r EXCEPT !.caller = "payment_endpoint",
              !.transaction_type = "DigitalPayment"]

Base == Transfer("a1", "a3", "u1", "u2", 50)

\* Requests that pass the checks made before the unit.
PassingRequests ==
    { Base,
      Transfer("a1", "a3", "u1", "u2", TransactionLimit),
      Transfer("a1", "a2", "u1", "u1", 50),
      Transfer("a3", "a1", "u2", "u1", 50),
      Transfer("a2", "a4", "u1", "u2", 50),
      Transfer("a1", "a1", "u1", "u2", 50),
      Transfer("a1", "a1", "u1", "u1", 50),
      Payment("a1", "a3", "u1", "u2", 50, "Zelle"),
      Payment("a1", "a3", "u1", "u2", 50, "N/A"),
      ViaPaymentEndpoint(Payment("a1", "a3", "u1", "u2", 50, "Zelle")),
      ViaTransferEndpoint(Base) }

\* Requests that one of the checks made before the unit rejects.
RejectedRequests ==
    { [Base EXCEPT !.transaction_amount = BadAmount],
      [Base EXCEPT !.transaction_amount = NumAmount(0)],
      [Base EXCEPT !.transaction_amount = NumAmount(-1)],
      [Base EXCEPT !.transaction_amount = NumAmount(TransactionLimit + 1)],
      Request("a0", "a3", "u1", "alice", "u2", "bob", NumAmount(50), "AccountTransfer", "N/A"),
      Transfer("a2", "a4", "u1", "u2", TransactionLimit),
      Transfer("a5", "a3", "u1", "u2", 50),
      [Base EXCEPT !.sender_account_number = "n9"],
      [Base EXCEPT !.sender_account_type = "Savings"],
      Request("a1", "a3", "u0", "alice", "u2", "bob", NumAmount(50), "AccountTransfer", "N/A"),
      [Base EXCEPT !.sender_user_name = "carol"],
      Request("a1", "a0", "u1", "alice", "u2", "bob", NumAmount(50), "AccountTransfer", "N/A"),
      Transfer("a1", "a5", "u1", "u2", 50),
      [Base EXCEPT !.receiver_account_number = "n9"],
      [Base EXCEPT !.receiver_account_type = "Savings"],
      Request("a1", "a3", "u1", "alice", "u0", "bob", NumAmount(50), "AccountTransfer", "N/A"),
      [Base EXCEPT !.receiver_user_name = "carol"],
      [Base EXCEPT !.receiver_user_name = "alice"],
      Transfer("a5", "a5", "u1", "u1", 50),
      Transfer("a1", "a1", "u1", "u1", TransactionLimit + 1) }

\* Requests an endpoint answers without calling perform_transaction.
RefusedRequests ==
    { ViaPaymentEndpoint(Payment("a1", "a3", "u1", "u2", 50, "N/A")),
      ViaPaymentEndpoint(Payment("a1", "a3", "u1", "u2", 50, "")),
      ViaTransferEndpoint([Base EXCEPT !.transaction_amount = BadAmount]),
      ViaTransferEndpoint([Base EXCEPT !.transaction_amount = NumAmount(0)]),
      ViaPaymentEndpoint(Payment("a1", "a3", "u1", "u2", TransactionLimit + 1, "Zelle")),
      ViaTransferEndpoint([Base EXCEPT !.transaction_amount = NoneAmount]) }

\* Requests on which perform_transaction raises.
RaisingRequests ==
    { [Base EXCEPT !.transaction_amount = NoneAmount],
      [Base EXCEPT !.account_id_sender = "zz"],
      [Base EXCEPT !.receiver_user_id = "zz"],
      ViaTransferEndpoint([Base EXCEPT !.account_id_receiver = "zz"]) }

\* Requests that contend for the same documents.
ContendingRequests ==
    { Base,
      Transfer("a3", "a1", "u2", "u1", 50),
      Transfer("a2", "a4", "u1", "u2", 50),
      Transfer("a3", "a4", "u2", "u2", 50) }

\* The requests a call may be made with.  A call beyond the first two makes
\* its four reads among the steps of the others and is refused at the last.
Menu(p) ==
    IF p = 1 THEN PassingRequests \cup RejectedRequests
                  \cup RefusedRequests \cup RaisingRequests
    ELSE IF p = 2 THEN ContendingRequests
    ELSE {[Transfer("a2", "a4", "u1", "u2", 50)
              EXCEPT !.receiver_user_name = "carol"]}


\* ------------------------------------------------ validation before the unit
\* float(transaction_amount) raises TypeError, which except ValueError does
\* not catch
AmountRaises(amt) == amt.k = "none"

\* float(transaction_amount) succeeds
AmountParses(amt) == amt.k = "num"

\* ObjectId(x) raises InvalidId
ObjectIdRaises(x) == x \in MalformedIds

\* float(transaction_amount)
ToFloat(amt) == amt.v

\* The floats that are not finite.  Inf stands above and NegInf below every
\* finite value of the model, as float("inf") and float("-inf") do; NaN is
\* float("nan"), for which the operators below do what IEEE 754 does.
Inf == 1000000
NegInf == -Inf
NaN == 2000000

IsFinite(x) == x \notin {NaN, Inf, NegInf}

\* x < y and x <= y on floats: False when either side is nan.
FloatLess(x, y) == x # NaN /\ y # NaN /\ x < y
FloatLessEq(x, y) == x # NaN /\ y # NaN /\ x <= y

\* x + y on floats: nan when either side is nan or the sides are opposite
\* infinities, an infinity when one side is one.
FloatAdd(x, y) ==
    IF x = NaN \/ y = NaN THEN NaN
    ELSE IF {x, y} = {Inf, NegInf} THEN NaN
    ELSE IF x \in {Inf, NegInf} THEN x
    ELSE IF y \in {Inf, NegInf} THEN y
    ELSE x + y

\* -x on floats.
FloatNeg(x) == IF x = NaN THEN NaN ELSE -x

\* transaction_amount <= 0
AmountNotPositive(v) == FloatLessEq(v, 0)

\* Faulty variant: the limit itself is refused (>= for >).
AmountReachesLimit(v) == v >= TransactionLimit

\* transaction_amount > transaction_limit
AmountExceedsLimit(v) == FloatLess(TransactionLimit, v)

\* sender_account["AccountBalance"] < transaction_amount
InsufficientFunds(acc, v) == FloatLess(acc.AccountBalance, v)

\* Faulty variant: the status is compared with a value no account has.
IsClosedNever(acc) == acc.AccountStatus = "closed"

\* account["AccountStatus"] == "Closed"
IsClosed(acc) == acc.AccountStatus = "Closed"

\* Faulty variant: the account type is not compared.
DetailsMismatchNumberOnly(acc, num, type) == acc.AccountNumber # num

\* account details do not match the claimed number and type
DetailsMismatch(acc, num, type) ==
    acc.AccountNumber # num \/ acc.AccountType # type

\* Faulty variant: the UserName of the document is not compared.
UserMismatchIdOnly(usrs, uid, name) == uid \notin DOMAIN usrs

\* not user or user["UserName"] != user_name
UserMismatch(usrs, uid, name) ==
    uid \notin DOMAIN usrs \/ usrs[uid].UserName # name

\* The early returns of perform_transaction before the session is started, in
\* the order of the code: the error that is logged, or "" when none is.  First
\* the checks of the amount, which read nothing.
AmountError(r) ==
    IF AmountRaises(r.transaction_amount) THEN "raise_TypeError"
    ELSE IF ~AmountParses(r.transaction_amount) THEN "amount_not_float"
    ELSE IF AmountNotPositive(ToFloat(r.transaction_amount))
         THEN "amount_not_positive"
    ELSE IF AmountExceedsLimit(ToFloat(r.transaction_amount))
         THEN "amount_exceeds_limit"
    ELSE ""

\* accounts.find_one({"_id": ObjectId(account_id_sender)}) and its checks.
SenderAccountError(r, accs) ==
    LET s == r.account_id_sender
    IN IF ObjectIdRaises(s) THEN "raise_InvalidId"
       ELSE IF s \notin DOMAIN accs THEN "sender_account_not_found"
       ELSE IF InsufficientFunds(accs[s], ToFloat(r.transaction_amount))
            THEN "insufficient_funds"
       ELSE IF IsClosed(accs[s]) THEN "sender_account_closed"
       ELSE IF DetailsMismatch(accs[s], r.sender_account_number,
                               r.sender_account_type)
            THEN "sender_account_mismatch"
       ELSE ""

\* users.find_one({"_id": ObjectId(sender_user_id)}) and its check.
SenderUserError(r, usrs) ==
    IF ObjectIdRaises(r.sender_user_id) THEN "raise_InvalidId"
    ELSE IF UserMismatch(usrs, r.sender_user_id, r.sender_user_name)
         THEN "sender_user_mismatch"
    ELSE ""

\* accounts.find_one({"_id": ObjectId(account_id_receiver)}) and its checks.
ReceiverAccountError(r, accs) ==
    LET t == r.account_id_receiver
    IN IF ObjectIdRaises(t) THEN "raise_InvalidId"
       ELSE IF t \notin DOMAIN accs THEN "receiver_account_not_found"
       ELSE IF IsClosed(accs[t]) THEN "receiver_account_closed"
       ELSE IF DetailsMismatch(accs[t], r.receiver_account_number,
                               r.receiver_account_type)
            THEN "receiver_account_mismatch"
       ELSE ""

\* users.find_one({"_id": ObjectId(receiver_user_id)}) and its check.
ReceiverUserError(r, usrs) ==
    IF ObjectIdRaises(r.receiver_user_id) THEN "raise_InvalidId"
    ELSE IF UserMismatch(usrs, r.receiver_user_id, r.receiver_user_name)
         THEN "receiver_user_mismatch"
    ELSE ""

\* The first error of the whole sequence when all four documents are read
\* from accs and usrs (no commit comes between the reads).
ValidationError(r, accs, usrs) ==
    IF AmountError(r) # "" THEN AmountError(r)
    ELSE IF SenderAccountError(r, accs) # "" THEN SenderAccountError(r, accs)
    ELSE IF SenderUserError(r, usrs) # "" THEN SenderUserError(r, usrs)
    ELSE IF ReceiverAccountError(r, accs) # "" THEN ReceiverAccountError(r, accs)
    ELSE ReceiverUserError(r, usrs)

\* The errors of ValidationError that are exceptions leaving perform_transaction.
RaiseErrors == {"raise_TypeError", "raise_InvalidId"}

\* What an endpoint does before it calls perform_transaction:
\* validate_transaction_amount, whose HTTPException answers 400 and whose
\* TypeError ends in the handler's except Exception (500), and, for a digital
\* payment, the check of payment_method.  "" when the call is made.
EndpointError(r) ==
    IF r.caller = "core" THEN ""
    ELSE IF AmountRaises(r.transaction_amount) THEN "http_500"
    ELSE IF ~AmountParses(r.transaction_amount) THEN "http_400_amount"
    ELSE IF AmountNotPositive(ToFloat(r.transaction_amount)) THEN "http_400_amount"
    ELSE IF AmountExceedsLimit(ToFloat(r.transaction_amount)) THEN "http_400_amount"
    ELSE IF r.caller = "payment_endpoint"
            /\ (r.payment_method = "" \/ r.payment_method = "N/A")
         THEN "http_400_payment_method"
    ELSE ""

\* ------------------------------------------------------ inside the callback
\* Faulty variant: the callback has no guard against a transfer to the same account.
NoSameAccountGuard(r) == FALSE

\* sender_user_name == receiver_user_name and
\* sender_account_number == receiver_account_number
IsSameAccount(r) ==
    /\ r.sender_user_name = r.receiver_user_name
    /\ r.sender_account_number = r.receiver_account_number

\* transaction_internal
IsInternal(r) ==
    /\ r.sender_user_name = r.receiver_user_name
    /\ r.sender_account_number # r.receiver_account_number

\* The transaction document as insert_one stores it.
NewTransaction(r, id, initiated) ==
    [_id |-> id,
     TransactionAmount |-> ToFloat(r.transaction_amount),
     TransactionType |-> r.transaction_type,
     TransactionInternal |-> IsInternal(r),
     TransactionPaymentMethod |->
        IF r.transaction_type = "DigitalPayment" /\ r.payment_method # ""
        THEN <<r.payment_method>> ELSE <<>>,
     TransactionSender |->
        [UserId |-> r.sender_user_id, UserName |-> r.sender_user_name,
         AccountId |-> r.account_id_sender,
         AccountNumber |-> r.sender_account_number,
         AccountType |-> r.sender_account_type],
     TransactionReceiver |->
        [UserId |-> r.receiver_user_id, UserName |-> r.receiver_user_name,
         AccountId |-> r.account_id_receiver,
         AccountNumber |-> r.receiver_account_number,
         AccountType |-> r.receiver_account_type],
     TransactionDates |->
        <<[TransactionDate |-> initiated,
           TransactionDateType |-> "TransactionInitiatedDate"]>>,
     TransactionStatus |-> "Initiated",
     TransactionCompleted |-> FALSE,
     TransactionNotified |-> FALSE]

\* Faulty variant: the update to Completed does not push its date.
MarkCompletedNoDate(doc) ==
    [doc EXCEPT !.TransactionStatus = "Completed",
                !.TransactionCompleted = TRUE]

\* update_one: $set status Completed, $push TransactionCompletedDate
MarkCompleted(doc) ==
    [doc EXCEPT !.TransactionStatus = "Completed",
                !.TransactionCompleted = TRUE,
                !.TransactionDates =
                    Append(@, [TransactionDate |-> now,
                               TransactionDateType |-> "TransactionCompletedDate"])]

\* update_one: $set status Notified, $push TransactionNotifiedDate
MarkNotified(doc) ==
    [doc EXCEPT !.TransactionStatus = "Notified",
                !.TransactionNotified = TRUE,
                !.TransactionDates =
                    Append(@, [TransactionDate |-> now,
                               TransactionDateType |-> "TransactionNotifiedDate"])]

\* Faulty variant: the debit loses its minus sign.
IncBalanceMagnitude(acc, delta) ==
    [acc EXCEPT !.AccountBalance = @ + (IF delta < 0 THEN -delta ELSE delta)]

\* Faulty variant: the update rewrites AccountStatus along with the balance.
IncBalanceAndStatus(acc, delta) ==
    [acc EXCEPT !.AccountBalance = @ + delta, !.AccountStatus = "Active"]

\* "$inc": {"AccountBalance": delta}
IncBalance(acc, delta) ==
    [acc EXCEPT !.AccountBalance = FloatAdd(@, delta)]

\* Faulty variant: "$slice": 20 keeps the oldest entries, not the newest.
PushRecentKeepOldest(list, entry) ==
    LET l == Append(list, entry)
    IN IF Len(l) > RecentCap THEN SubSeq(l, 1, RecentCap) ELSE l

\* "$push": {"RecentTransactions": {"$each": [entry], "$slice": -20}}
PushRecent(list, entry) ==
    LET l == Append(list, entry)
    IN IF Len(l) > RecentCap THEN SubSeq(l, Len(l) - RecentCap + 1, Len(l))
       ELSE l

\* A user document holds the field RecentTransactions.
HasRecentTransactions(user) == "RecentTransactions" \in DOMAIN user

\* The user document after the $push of entry, which makes the field when
\* the document has none.
PushedTo(user, entry) ==
    IF HasRecentTransactions(user)
    THEN [user EXCEPT !.RecentTransactions = PushRecent(@, entry)]
    ELSE [UserName |-> user.UserName,
          RecentTransactions |-> PushRecent(<<>>, entry)]

\* Faulty variant: the internal case pushes for both sides as well.
RecentTargetsBoth(r) == <<r.sender_user_id, r.receiver_user_id>>

\* The users whose RecentTransactions the callback pushes to, in order.
RecentTargets(r) ==
    IF IsInternal(r) THEN <<r.sender_user_id>>
    ELSE <<r.sender_user_id, r.receiver_user_id>>

NotificationAccounts(r) ==
    [AccountIdSender |-> r.account_id_sender,
     AccountNumberSender |-> r.sender_account_number,
     AccountTypeSender |-> r.sender_account_type,
     AccountIdReceiver |-> r.account_id_receiver,
     AccountNumberReceiver |-> r.receiver_account_number,
     AccountTypeReceiver |-> r.receiver_account_type]

\* One notification document.  The message is kept as the values the f-string
\* formats: currency, amount and, when the text has one, the new balance.
Notification(r, tid, k, event, uid, uname, res, withBalance) ==
    [_id |-> <<tid, k>>,
     NotificationEvent |-> event,
     NotificationMessage |->
        [Currency |-> res.AccountCurrency,
         Amount |-> ToFloat(r.transaction_amount),
         Balance |-> IF withBalance THEN <<res.AccountBalance>> ELSE <<>>],
     NotificationUser |-> [UserName |-> uname, UserId |-> uid],
     NotificationTransaction |-> [TransactionId |-> tid],
     NotificationAccounts |-> NotificationAccounts(r)]

\* Faulty variant: the receiver's notification keeps the sender as its user.
MakeNotificationsSenderTwice(r, tid, sres, rres) ==
    IF IsInternal(r)
    THEN { Notification(r, tid, 1, "InternalTransfer",
                        r.sender_user_id, r.sender_user_name, sres, FALSE) }
    ELSE IF r.transaction_type = "AccountTransfer"
    THEN { Notification(r, tid, 1, "TransferSent",
                        r.sender_user_id, r.sender_user_name, sres, TRUE),
           Notification(r, tid, 2, "TransferReceived",
                        r.sender_user_id, r.sender_user_name, rres, TRUE) }
    ELSE { Notification(r, tid, 1, "PaymentMade",
                        r.sender_user_id, r.sender_user_name, sres, TRUE),
           Notification(r, tid, 2, "PaymentReceived",
                        r.sender_user_id, r.sender_user_name, rres, TRUE) }

\* The documents insert_one / insert_many add to notifications.
\* sres and rres are the post-images find_one_and_update returned.
MakeNotifications(r, tid, sres, rres) ==
    IF IsInternal(r)
    THEN { Notification(r, tid, 1, "InternalTransfer",
                        r.sender_user_id, r.sender_user_name, sres, FALSE) }
    ELSE IF r.transaction_type = "AccountTransfer"
    THEN { Notification(r, tid, 1, "TransferSent",
                        r.sender_user_id, r.sender_user_name, sres, TRUE),
           Notification(r, tid, 2, "TransferReceived",
                        r.receiver_user_id, r.receiver_user_name, rres, TRUE) }
    ELSE { Notification(r, tid, 1, "PaymentMade",
                        r.sender_user_id, r.sender_user_name, sres, TRUE),
           Notification(r, tid, 2, "PaymentReceived",
                        r.receiver_user_id, r.receiver_user_name, rres, TRUE) }

\* ------------------------------------------------------------ the atomic unit
NoDocs == [x \in {} |-> 0]

\* A unit with no buffered write.
EmptyUnit ==
    [accs |-> NoDocs,           \* post-images of the accounts written
     usrs |-> NoDocs,           \* post-images of the users written
     initiated |-> 0,           \* the time read when callback built the document
     txn |-> <<>>,              \* the transaction document, once inserted
     notifs |-> {},             \* the notifications inserted
     sender_result |-> <<>>,    \* post-image returned by the debit
     receiver_result |-> <<>>,  \* post-image returned by the credit
     snap |-> FALSE,            \* the unit has taken its snapshot
     stale |-> {}]              \* documents committed to since the snapshot

\* The documents the unit has written (and holds until it ends).
Written(u) == DOMAIN u.accs \cup DOMAIN u.usrs

\* The id insert_one gives the transaction document of this attempt.
TransactionId(p) == <<p, attempt[p]>>

NoId == <<0, 0>>
Pending == [kind |-> "pending", id |-> NoId]
ReturnNone == [kind |-> "None", id |-> NoId]
ReturnFalse == [kind |-> "False", id |-> NoId]
ReturnId(tid) == [kind |-> "id", id |-> tid]
\* perform_transaction was left by an exception.
Raised == [kind |-> "raised", id |-> NoId]
\* The endpoint answered without calling perform_transaction.
NotCalled == [kind |-> "not_called", id |-> NoId]

\* Faulty variant: a write conflicts with any write of another open unit,
\* whatever the document (locking by collection).
WriteConflictAnyDocument(p, d) ==
    \/ d \in unit[p].stale
    \/ \E q \in Procs \ {p} : Written(unit[q]) # {}

\* The store reports a write conflict on document d to the unit of p.
WriteConflict(p, d) ==
    \/ d \in unit[p].stale
    \/ \E q \in Procs \ {p} : d \in Written(unit[q])

\* The account as the unit of p sees it.
AccountInUnit(p, a) ==
    IF a \in DOMAIN unit[p].accs THEN unit[p].accs[a] ELSE accounts[a]

UserInUnit(p, u) ==
    IF u \in DOMAIN unit[p].usrs THEN unit[p].usrs[u] ELSE users[u]

\* The document the next write of p goes to, for the steps that write a
\* shared document.
Target(p) ==
    CASE pc[p] = "debit" -> req[p].account_id_sender
      [] pc[p] = "credit" -> req[p].account_id_receiver
      [] pc[p] = "recent_sender" -> req[p].sender_user_id
      [] pc[p] = "recent_receiver" -> req[p].receiver_user_id

LockingSteps == {"debit", "credit", "recent_sender", "recent_receiver"}
WriteSteps == LockingSteps \cup {"insert", "complete", "notify", "notified"}


\* ------------------------------------------- the recent-transactions query
\* A user_identifier: an ObjectId ("id") or a str ("name").
ById(x) == [k |-> "id", v |-> x]
ByName(x) == [k |-> "name", v |-> x]
NoIdentifier == [k |-> "none", v |-> ""]

\* The identifiers the query is made with: a user by id and by name, a user
\* by name, an id no user has, and the id of a user passed as a str.
QueryIdentifiers ==
    {ById("u2"), ByName("bob"), ByName("alice"), ById("u0"), ByName("u2")}

\* What a read operation returned: op is the operation and for its argument;
\* txns is the list returned, valid the bool of is_valid_user, status the
\* HTTP status of the endpoint and queried whether the endpoint called
\* get_recent_transactions_for_user.
Answer(op, ident, txns, valid, status, queried) ==
    [op |-> op, for |-> ident, txns |-> txns, valid |-> valid,
     status |-> status, queried |-> queried]

NoAnswer == Answer("none", NoIdentifier, <<>>, FALSE, 0, FALSE)

\* A read operation between two reads: op is the operation, for its argument,
\* at the read it makes next, ident the identifier it queries users with and
\* entries what it took from the user document it read.
Reading(op, arg, at, ident, entries) ==
    [op |-> op, for |-> arg, at |-> at, ident |-> ident, entries |-> entries]

NoReading == Reading("none", NoIdentifier, "idle", NoIdentifier, <<>>)

\* The users that match user_query: {"_id": ...} for an ObjectId, and
\* {"UserName": ...} for anything else.
MatchingUsers(ident, usrs) ==
    IF ident.k = "id"
    THEN {u \in DOMAIN usrs : u = ident.v}
    ELSE {u \in DOMAIN usrs : usrs[u].UserName = ident.v}

\* sorted(list, key=lambda x: x["Date"], reverse=True): the sort is stable,
\* entries of the same date keep their order.
RECURSIVE SortedByDate(_)
SortedByDate(list) ==
    IF list = <<>> THEN <<>>
    ELSE LET x == list[Len(list)]
             rest == SortedByDate(SubSeq(list, 1, Len(list) - 1))
             n == Cardinality({i \in 1..Len(rest) : rest[i].Date >= x.Date})
         IN SubSeq(rest, 1, n) \o <<x>> \o SubSeq(rest, n + 1, Len(rest))

\* max(date["TransactionDate"] for date in x["TransactionDates"])
LatestDate(doc) ==
    CHOOSE d \in {doc.TransactionDates[i].TransactionDate :
                    i \in 1..Len(doc.TransactionDates)} :
        \A i \in 1..Len(doc.TransactionDates) :
            d >= doc.TransactionDates[i].TransactionDate

\* Faulty variant: the sort is made without reverse=True.
RECURSIVE SortedByLatestDateAscending(_)
SortedByLatestDateAscending(docs) ==
    IF docs = <<>> THEN <<>>
    ELSE LET x == docs[Len(docs)]
             rest == SortedByLatestDateAscending(SubSeq(docs, 1, Len(docs) - 1))
             n == Cardinality({i \in 1..Len(rest) :
                                LatestDate(rest[i]) <= LatestDate(x)})
         IN SubSeq(rest, 1, n) \o <<x>> \o SubSeq(rest, n + 1, Len(rest))

\* A stable sort of records by their field key, the greatest first.
RECURSIVE SortedByKey(_)
SortedByKey(keyed) ==
    IF keyed = <<>> THEN <<>>
    ELSE LET x == keyed[Len(keyed)]
             rest == SortedByKey(SubSeq(keyed, 1, Len(keyed) - 1))
             n == Cardinality({i \in 1..Len(rest) : rest[i].key >= x.key})
         IN SubSeq(rest, 1, n) \o <<x>> \o SubSeq(rest, n + 1, Len(rest))

\* transactions.sort(key=latest date, reverse=True): the key of each document
\* is computed once, and the sort is stable.
SortedByLatestDate(docs) ==
    LET keyed == SubSeq([i \in 1..Len(docs) |->
                            [key |-> LatestDate(docs[i]), doc |-> docs[i]]],
                        1, Len(docs))
        sorted == SortedByKey(keyed)
    IN [i \in 1..Len(sorted) |-> sorted[i].doc]

\* The enumerations of a set of documents.
Orders(S) ==
    {f \in [1..Cardinality(S) -> S] :
        \A i, j \in 1..Cardinality(S) : i # j => f[i] # f[j]}

\* list(transactions_collection.find({"_id": {"$in": ids}})): every document
\* whose _id is in ids, once, in the order of the collection: the documents
\* of earlier runs as they were inserted, then those inserted since, whose
\* order the model does not record.
Find(ids, txns) ==
    LET old == SelectSeq([k \in 1..RecentCap |-> OldTransaction(k)],
                         LAMBDA t : t._id \in ids)
    IN {old \o f : f \in Orders({t \in txns : t._id \in ids})}

\* sorted(user["RecentTransactions"], key=Date, reverse=True)[:20]
RecentEntries(user) ==
    LET sorted == SortedByDate(user.RecentTransactions)
    IN SubSeq(sorted, 1,
              IF Len(sorted) < QueryLimit THEN Len(sorted) ELSE QueryLimit)

\* What the find for the entries recent and the sort that follows it may
\* give, the transactions collection holding txns.
TransactionsFor(recent, txns) ==
    LET ids == {recent[i].TransactionId : i \in 1..Len(recent)}
    IN {SortedByLatestDate(docs) : docs \in Find(ids, txns)}

\* What get_recent_transactions_for_user(ident) may return when nothing is
\* committed between its two reads.  find_one gives one of the documents
\* that match, whichever the store finds first; [] is returned when there is
\* none and when the document has no field RecentTransactions.
RecentTransactionsOf(ident, usrs, txns) ==
    IF MatchingUsers(ident, usrs) = {} THEN {<<>>}
    ELSE UNION {IF HasRecentTransactions(usrs[u])
                THEN TransactionsFor(RecentEntries(usrs[u]), txns)
                ELSE {<<>>} :
                    u \in MatchingUsers(ident, usrs)}


\* ------------------------------------------------------------------- actions
Init ==
    /\ accounts = InitAccounts
    /\ users = InitUsers
    /\ transactions = {}
    /\ notifications = {}
    /\ pc = [p \in Procs |-> "idle"]
    /\ req = [p \in Procs |-> Base]
    /\ attempt = [p \in Procs |-> 0]
    /\ unit = [p \in Procs |-> EmptyUnit]
    /\ result = [p \in Procs |-> Pending]
    /\ outcome = [p \in Procs |-> ""]
    /\ now = FirstTime
    /\ answer = NoAnswer
    /\ reading = NoReading

\* Faulty variant: the balance updates are issued outside the session, so they
\* outlive the abort of the unit.
ReturnKeepingWrites(p, res, why) ==
    /\ pc' = [pc EXCEPT ![p] = "done"]
    /\ unit' = [unit EXCEPT ![p] = EmptyUnit]
    /\ result' = [result EXCEPT ![p] = res]
    /\ outcome' = [outcome EXCEPT ![p] = why]
    /\ now' = now /\ answer' = NoAnswer /\ reading' = reading
    /\ accounts' = [a \in DOMAIN accounts |->
                        IF a \in DOMAIN unit[p].accs THEN unit[p].accs[a]
                        ELSE accounts[a]]
    /\ UNCHANGED <<users, transactions, notifications>>

\* perform_transaction returns res; any open unit is gone (its buffered
\* writes with it) and the committed store is as it was.
Return(p, res, why) ==
    /\ pc' = [pc EXCEPT ![p] = "done"]
    /\ unit' = [unit EXCEPT ![p] = EmptyUnit]
    /\ result' = [result EXCEPT ![p] = res]
    /\ outcome' = [outcome EXCEPT ![p] = why]
    /\ now' = now /\ answer' = NoAnswer /\ reading' = reading
    /\ UNCHANGED store

\* A check made before the session has given err: an exception leaves
\* perform_transaction, an error returns None, and without one the call goes
\* on to next.
Checked(p, err, next) ==
    IF err \in RaiseErrors
    THEN Return(p, Raised, err)
    ELSE IF err # ""
    THEN Return(p, ReturnNone, err)
    ELSE /\ pc' = [pc EXCEPT ![p] = next]
         /\ now' = now /\ answer' = NoAnswer /\ reading' = reading
         /\ UNCHANGED <<store, unit, result, outcome>>

\* A request r arrives: an endpoint may refuse it; otherwise
\* perform_transaction is called with r, checks the amount, reads the sender
\* account and checks it.
Validate(p, r) ==
    /\ pc[p] = "idle"
    /\ req' = [req EXCEPT ![p] = r]
    /\ UNCHANGED attempt
    /\ IF EndpointError(r) # ""
       THEN Return(p, NotCalled, EndpointError(r))
       ELSE IF AmountError(r) # ""
       THEN Checked(p, AmountError(r), "sender_user")
       ELSE Checked(p, SenderAccountError(r, accounts), "sender_user")

\* perform_transaction reads the sender user and checks it.
CheckSenderUser(p) ==
    /\ pc[p] = "sender_user"
    /\ UNCHANGED <<req, attempt>>
    /\ Checked(p, SenderUserError(req[p], users), "receiver_account")

\* perform_transaction reads the receiver account and checks it.
CheckReceiverAccount(p) ==
    /\ pc[p] = "receiver_account"
    /\ UNCHANGED <<req, attempt>>
    /\ Checked(p, ReceiverAccountError(req[p], accounts), "receiver_user")

\* perform_transaction reads the receiver user and checks it; the session is
\* started and with_transaction called next.
CheckReceiverUser(p) ==
    /\ pc[p] = "receiver_user"
    /\ UNCHANGED <<req, attempt>>
    /\ Checked(p, ReceiverUserError(req[p], users), "callback")

\* Faulty variant: callback is run again without the time limit of
\* with_transaction ever being consumed.
BeginUncounted(p) ==
    /\ pc[p] = "callback"
    /\ UNCHANGED <<req, attempt>>
    /\ IF IsSameAccount(req[p])
       THEN Return(p, ReturnFalse, "same_account")
       ELSE /\ pc' = [pc EXCEPT ![p] = "debit"]
            /\ unit' = [unit EXCEPT ![p].initiated = now]
            /\ now' = now /\ answer' = NoAnswer /\ reading' = reading
            /\ UNCHANGED <<store, result, outcome>>

\* with_transaction starts a transaction and calls callback, which returns
\* False for a transfer to the same account: with_transaction then commits
\* the transaction, in which nothing was written, and returns False.
Begin(p) ==
    /\ pc[p] = "callback"
    /\ attempt' = [attempt EXCEPT ![p] = @ + 1]
    /\ UNCHANGED req
    /\ IF IsSameAccount(req[p])
       THEN Return(p, ReturnFalse, "same_account")
       ELSE /\ pc' = [pc EXCEPT ![p] = "debit"]
            /\ unit' = [unit EXCEPT ![p].initiated = now]
            /\ now' = now /\ answer' = NoAnswer /\ reading' = reading
            /\ UNCHANGED <<store, result, outcome>>

\* p moves on inside its unit, which becomes u.
Step(p, next, u) ==
    /\ pc' = [pc EXCEPT ![p] = next]
    /\ unit' = [unit EXCEPT ![p] = u]
    /\ now' = now /\ answer' = NoAnswer /\ reading' = reading
    /\ UNCHANGED <<store, req, attempt, result, outcome>>

\* find_one_and_update on the sender account, $inc by -amount.
Debit(p) ==
    /\ pc[p] = "debit"
    /\ ~WriteConflict(p, Target(p))
    /\ LET a == req[p].account_id_sender
           post == IncBalance(AccountInUnit(p, a),
                              FloatNeg(ToFloat(req[p].transaction_amount)))
       IN Step(p, "credit",
               [unit[p] EXCEPT !.accs = (a :> post) @@ @,
                               !.sender_result = <<post>>,
                               !.snap = TRUE])

\* find_one_and_update on the receiver account, $inc by amount.
Credit(p) ==
    /\ pc[p] = "credit"
    /\ ~WriteConflict(p, Target(p))
    /\ LET a == req[p].account_id_receiver
           post == IncBalance(AccountInUnit(p, a), ToFloat(req[p].transaction_amount))
       IN Step(p, "insert",
               [unit[p] EXCEPT !.accs = (a :> post) @@ @,
                               !.receiver_result = <<post>>])

\* insert_one of the transaction document.
Insert(p) ==
    /\ pc[p] = "insert"
    /\ Step(p, "complete",
            [unit[p] EXCEPT !.txn = <<NewTransaction(req[p], TransactionId(p),
                                                unit[p].initiated)>>])

\* update_one to Completed.
Complete(p) ==
    /\ pc[p] = "complete"
    /\ Step(p, "recent_sender",
            [unit[p] EXCEPT !.txn = <<MarkCompleted(@[1])>>])

\* update_one pushing to RecentTransactions of the k-th target user.
Recent(p, k) ==
    /\ pc[p] = (IF k = 1 THEN "recent_sender" ELSE "recent_receiver")
    /\ ~WriteConflict(p, Target(p))
    /\ LET targets == RecentTargets(req[p])
           u == targets[k]
           doc == UserInUnit(p, u)
           post == PushedTo(doc, [TransactionId |-> TransactionId(p),
                                  Date |-> now])
       IN Step(p, IF k < Len(targets) THEN "recent_receiver" ELSE "notify",
               [unit[p] EXCEPT !.usrs = (u :> post) @@ @])

\* insert_one / insert_many of the notifications.
Notify(p) ==
    /\ pc[p] = "notify"
    /\ Step(p, "notified",
            [unit[p] EXCEPT !.notifs =
                MakeNotifications(req[p], TransactionId(p),
                                  unit[p].sender_result[1],
                                  unit[p].receiver_result[1])])

\* update_one to Notified; callback returns transaction_id.
Notified(p) ==
    /\ pc[p] = "notified"
    /\ Step(p, "commit",
            [unit[p] EXCEPT !.txn = <<MarkNotified(@[1])>>])

\* Faulty variant: the writes of the aborted attempt stay in the unit that
\* callback is run in again.
ConflictKeepingWrites(p) ==
    /\ pc[p] \in LockingSteps
    /\ WriteConflict(p, Target(p))
    /\ UNCHANGED <<req, attempt>>
    /\ \/ /\ attempt[p] < MaxAttempts
          /\ pc' = [pc EXCEPT ![p] = "callback"]
          /\ now' = now /\ answer' = NoAnswer /\ reading' = reading
          /\ UNCHANGED <<store, unit, result, outcome>>
       \/ Return(p, ReturnNone, "conflict")

\* A write of the callback meets a write conflict (a transient error):
\* with_transaction aborts the transaction and, while its time limit lasts,
\* runs callback again; past the limit the error reaches the except clause.
Conflict(p) ==
    /\ pc[p] \in LockingSteps
    /\ WriteConflict(p, Target(p))
    /\ UNCHANGED <<req, attempt>>
    /\ \/ /\ attempt[p] < MaxAttempts
          /\ pc' = [pc EXCEPT ![p] = "callback"]
          /\ unit' = [unit EXCEPT ![p] = EmptyUnit]
          /\ now' = now /\ answer' = NoAnswer /\ reading' = reading
          /\ UNCHANGED <<store, result, outcome>>
       \/ Return(p, ReturnNone, "conflict")

\* A store call of callback, or commit_transaction, raises an error labelled
\* TransientTransactionError that is no write conflict (the connection to the
\* server is lost): with_transaction aborts the transaction and, while its
\* time limit lasts, runs callback again; past the limit the error reaches
\* the except clause.  The store has not applied the unit.
Transient(p) ==
    /\ pc[p] \in WriteSteps \cup {"commit"}
    /\ UNCHANGED <<req, attempt>>
    /\ \/ /\ attempt[p] < MaxAttempts
          /\ pc' = [pc EXCEPT ![p] = "callback"]
          /\ unit' = [unit EXCEPT ![p] = EmptyUnit]
          /\ now' = now /\ answer' = NoAnswer /\ reading' = reading
          /\ UNCHANGED <<store, result, outcome>>
       \/ Return(p, ReturnNone, "transient_error")

\* A write of the callback raises an error that is not transient: the
\* transaction is aborted, None is returned.
StepFails(p) ==
    /\ pc[p] \in WriteSteps
    /\ UNCHANGED <<req, attempt>>
    /\ Return(p, ReturnNone, "step_failed")

\* Faulty variant: the unit is applied without its transaction document.
CommittedWithoutTransaction(u) ==
    /\ accounts' = [a \in DOMAIN accounts |->
                        IF a \in DOMAIN u.accs THEN u.accs[a] ELSE accounts[a]]
    /\ users' = [x \in DOMAIN users |->
                        IF x \in DOMAIN u.usrs THEN u.usrs[x] ELSE users[x]]
    /\ transactions' = transactions
    /\ notifications' = notifications \cup u.notifs

\* The store after the unit u is committed.
Committed(u) ==
    /\ accounts' = [a \in DOMAIN accounts |->
                        IF a \in DOMAIN u.accs THEN u.accs[a] ELSE accounts[a]]
    /\ users' = [x \in DOMAIN users |->
                        IF x \in DOMAIN u.usrs THEN u.usrs[x] ELSE users[x]]
    /\ transactions' = transactions \cup {u.txn[1]}
    /\ notifications' = notifications \cup u.notifs

\* The store applies the unit of p; the other units that have taken their
\* snapshot now hold stale versions of the documents p wrote.  The client
\* gets res.
EndCommitted(p, res, why) ==
    /\ Committed(unit[p])
    /\ pc' = [pc EXCEPT ![p] = "done"]
    /\ unit' = [q \in Procs |->
                    IF q = p THEN EmptyUnit
                    ELSE IF unit[q].snap
                    THEN [unit[q] EXCEPT !.stale = @ \cup Written(unit[p])]
                    ELSE unit[q]]
    /\ result' = [result EXCEPT ![p] = res]
    /\ outcome' = [outcome EXCEPT ![p] = why]
    /\ now' = now /\ answer' = NoAnswer /\ reading' = reading
    /\ UNCHANGED <<req, attempt>>

\* commit_transaction succeeds: with_transaction returns transaction_id.
Commit(p) ==
    /\ pc[p] = "commit"
    /\ EndCommitted(p, ReturnId(unit[p].txn[1]._id), "committed")

\* commit_transaction raises and the store has not applied the unit.
CommitFails(p) ==
    /\ pc[p] = "commit"
    /\ UNCHANGED <<req, attempt>>
    /\ Return(p, ReturnNone, "commit_failed")

\* commit_transaction raises although the store has applied the unit (the
\* acknowledgement is lost and the time limit for retrying the commit ends):
\* the except clause returns None.
CommitUnknown(p) ==
    /\ pc[p] = "commit"
    /\ EndCommitted(p, ReturnNone, "commit_unknown")

Next ==
    \E p \in Procs :
        \/ \E r \in Menu(p) : Validate(p, r)
        \/ CheckSenderUser(p)
        \/ CheckReceiverAccount(p)
        \/ CheckReceiverUser(p)
        \/ Begin(p)
        \/ Debit(p)
        \/ Credit(p)
        \/ Insert(p)
        \/ Complete(p)
        \/ \E k \in 1..2 : Recent(p, k)
        \/ Notify(p)
        \/ Notified(p)
        \/ Conflict(p)
        \/ Transient(p)
        \/ StepFails(p)
        \/ Commit(p)
        \/ CommitFails(p)
        \/ CommitUnknown(p)

Spec == Init /\ [][Next]_vars

\* The steps a read operation leaves unchanged.
ReadOnly == UNCHANGED <<store, pc, req, attempt, unit, result, outcome, now>>

\* get_recent_transactions_for_user returns [] after its first read.
ReturnsEmpty(op, arg) ==
    /\ answer' = Answer(op, arg, <<>>, op = "fetch",
                         IF op = "fetch" THEN 200 ELSE 0, op = "fetch")
    /\ reading' = NoReading

\* users.find_one(user_query, {"RecentTransactions": 1}) of the operation op
\* called with arg: without a document, or with one that has no field
\* RecentTransactions, [] is returned; otherwise the entries of the document
\* are sorted and cut and the operation goes on to its find.
ReadUser(op, arg, ident) ==
    IF MatchingUsers(ident, users) = {}
    THEN ReturnsEmpty(op, arg)
    ELSE \E u \in MatchingUsers(ident, users) :
            IF ~HasRecentTransactions(users[u])
            THEN ReturnsEmpty(op, arg)
            ELSE /\ reading' = Reading(op, arg, "find", ident,
                                       RecentEntries(users[u]))
                 /\ answer' = NoAnswer

\* get_recent_transactions_for_user(ident) is called and reads the user.
GetRecentTransactionsForUser(ident) ==
    /\ reading.at = "idle"
    /\ ReadUser("get_recent", ident, ident)
    /\ ReadOnly

\* transactions.find({"_id": {"$in": ids}}) and the sort: the second read of
\* get_recent_transactions_for_user, which returns; called by the endpoint,
\* the list is the body of the response.
FindTransactions ==
    /\ reading.at = "find"
    /\ \E txns \in TransactionsFor(reading.entries, transactions) :
          answer' = Answer(reading.op, reading.for, txns, reading.op = "fetch",
                           IF reading.op = "fetch" THEN 200 ELSE 0,
                           reading.op = "fetch")
    /\ reading' = NoReading
    /\ ReadOnly

\* Time passes.
Tick ==
    /\ now < LastTime
    /\ now' = now + 1
    /\ UNCHANGED <<store, pc, req, attempt, unit, result, outcome, answer,
                   reading>>

\* The steps of a call once perform_transaction has been entered.
Run(p) ==
    \/ CheckSenderUser(p)
    \/ CheckReceiverAccount(p)
    \/ CheckReceiverUser(p)
    \/ Begin(p)
    \/ Debit(p)
    \/ Credit(p)
    \/ Insert(p)
    \/ Complete(p)
    \/ \E k \in 1..2 : Recent(p, k)
    \/ Notify(p)
    \/ Notified(p)
    \/ Conflict(p)
    \/ Transient(p)
    \/ StepFails(p)
    \/ Commit(p)
    \/ CommitFails(p)
    \/ CommitUnknown(p)

\* Each call runs in a thread of its own that is scheduled fairly, and the
\* store answers every operation (with a result, a write conflict or an
\* error): a call that can take a step eventually takes one.
FairSpec == Spec /\ \A p \in Procs : WF_vars(Run(p))

\* The transfers that feed the lists the query reads: one between alice and
\* bob, one of bob's own, and beyond these calls that are refused.
QueryMenu(p) ==
    IF p = 1 THEN {Base}
    ELSE IF p = 2 THEN {Transfer("a3", "a4", "u2", "u2", 50)}
    ELSE {Transfer("a5", "a3", "u1", "u2", 50)}

\* Transfers, the passing of time, and queries at any moment.
QueryNext ==
    \/ \E p \in Procs :
          \/ \E r \in QueryMenu(p) : Validate(p, r)
          \/ Run(p)
    \/ Tick
    \/ \E ident \in QueryIdentifiers : GetRecentTransactionsForUser(ident)
    \/ FindTransactions

QuerySpec == Init /\ [][QueryNext]_vars

\* is_valid_user(ident): one find_one on users with the projection {_id: 1};
\* True when a document matches.
IsValidUserOf(ident, usrs) == MatchingUsers(ident, usrs) # {}

IsValidUser(ident) ==
    /\ reading.at = "idle"
    /\ answer' = Answer("is_valid_user", ident, <<>>,
                         IsValidUserOf(ident, users), 0, FALSE)
    /\ reading' = reading
    /\ ReadOnly

\* The user_identifier of a request body: a JSON string, or the key missing
\* (data.get gives None).
Str(x) == [k |-> "str", v |-> x]

\* The strings ObjectId.is_valid accepts (24 hex digits): the ids of users,
\* written as strings, and one id no user has.
ObjectIdStrings == UserIds \cup {"u0"}

\* Bodies sent to /fetch-recent-transactions-for-user: no identifier, an
\* empty one, the id and the name of a user, an id and a name nobody has.
FetchBodies ==
    {NoIdentifier, Str(""), Str("u2"), Str("bob"), Str("u0"), Str("carol")}

\* `not user_identifier`: None and the empty string.
IdentifierMissing(body) == body.k = "none" \/ body.v = ""

\* if ObjectId.is_valid(x): x = ObjectId(x)
ToIdentifier(body) ==
    IF body.v \in ObjectIdStrings THEN ById(body.v) ELSE ByName(body.v)

\* The status the endpoint raises or answers inside its try block.
FetchAttempt(body, usrs) ==
    IF IdentifierMissing(body) THEN 400
    ELSE IF ~IsValidUserOf(ToIdentifier(body), usrs) THEN 404
    ELSE 200

\* `except Exception` around the whole body: an HTTPException raised inside
\* the try block is an Exception and is raised again with status 500.
FetchStatus(body, usrs) ==
    IF FetchAttempt(body, usrs) = 200 THEN 200 ELSE 500

\* The endpoint answers the status FetchStatus gives and ends.
FetchRefuses(body) ==
    /\ answer' = Answer("fetch", body, <<>>, FALSE, FetchStatus(body, users),
                         FALSE)
    /\ reading' = NoReading

\* POST /fetch-recent-transactions-for-user: the body is awaited and the
\* identifier checked and converted.
FetchRecentTransactionsForUser(body) ==
    /\ reading.at = "idle"
    /\ IF IdentifierMissing(body)
       THEN FetchRefuses(body)
       ELSE /\ reading' = Reading("fetch", body, "valid", ToIdentifier(body), <<>>)
            /\ answer' = NoAnswer
    /\ ReadOnly

\* The endpoint calls is_valid_user.
FetchIsValidUser ==
    /\ reading.at = "valid"
    /\ IF IsValidUserOf(reading.ident, users)
       THEN /\ reading' = [reading EXCEPT !.at = "user"]
            /\ answer' = NoAnswer
       ELSE FetchRefuses(reading.for)
    /\ ReadOnly

\* The endpoint calls get_recent_transactions_for_user, which reads the user.
FetchReadUser ==
    /\ reading.at = "user"
    /\ ReadUser("fetch", reading.for, reading.ident)
    /\ ReadOnly

\* Transfers and every read operation of the service, at any moment.
ReadNext ==
    \/ \E p \in Procs :
          \/ \E r \in QueryMenu(p) : Validate(p, r)
          \/ Run(p)
    \/ \E ident \in QueryIdentifiers :
          \/ IsValidUser(ident)
          \/ GetRecentTransactionsForUser(ident)
    \/ FindTransactions
    \/ \E body \in FetchBodies : FetchRecentTransactionsForUser(body)
    \/ FetchIsValidUser
    \/ FetchReadUser

ReadSpec == Init /\ [][ReadNext]_vars

\* Amounts that are not finite, given to perform_transaction and to an
\* endpoint, next to a transfer that contends for the same sender account;
\* beyond these a call that is refused.
NonFiniteMenu(p) ==
    IF p = 1
    THEN {[Base EXCEPT !.transaction_amount = NumAmount(NaN)],
          [Base EXCEPT !.transaction_amount = NumAmount(Inf)],
          [Base EXCEPT !.transaction_amount = NumAmount(NegInf)],
          ViaTransferEndpoint([Base EXCEPT !.transaction_amount = NumAmount(NaN)])}
    ELSE IF p = 2 THEN {Transfer("a1", "a2", "u1", "u1", 50)}
    ELSE {Transfer("a5", "a3", "u1", "u2", 50)}

NonFiniteNext ==
    \E p \in Procs :
        \/ \E r \in NonFiniteMenu(p) : Validate(p, r)
        \/ Run(p)

NonFiniteSpec == Init /\ [][NonFiniteNext]_vars


\* ------------------------------------------------------- what observers see
RECURSIVE SumBalances(_, _)
SumBalances(accs, S) ==
    IF S = {} THEN 0
    ELSE LET a == CHOOSE x \in S : TRUE
         IN accs[a].AccountBalance + SumBalances(accs, S \ {a})

TotalBalance(accs) == SumBalances(accs, DOMAIN accs)

RECURSIVE SumAmounts(_)
SumAmounts(S) ==
    IF S = {} THEN 0
    ELSE LET t == CHOOSE x \in S : TRUE
         IN t.TransactionAmount + SumAmounts(S \ {t})

\* Number of entries of a RecentTransactions list that refer to tid.
Occurrences(list, tid) ==
    Cardinality({i \in 1..Len(list) : list[i].TransactionId = tid})

\* The committed transactions, notifications and recent entries made by call p.
TransactionsOf(p) == {t \in transactions : t._id[1] = p}
NotificationsOf(p) ==
    {n \in notifications : n.NotificationTransaction.TransactionId[1] = p}
RecentEntriesOf(p) ==
    {<<u, i>> \in UserIds \X (1..RecentCap) :
        /\ i <= Len(users[u].RecentTransactions)
        /\ users[u].RecentTransactions[i].TransactionId[1] = p}

\* Nothing in the committed store comes from call p.
NoTrace(p) ==
    /\ TransactionsOf(p) = {}
    /\ NotificationsOf(p) = {}
    /\ RecentEntriesOf(p) = {}

\* Every balance is the initial balance plus the committed transfers to the
\* account minus the committed transfers from it.
Ledger ==
    \A a \in AccountIds :
        accounts[a].AccountBalance =
            InitAccounts[a].AccountBalance
            + SumAmounts({t \in transactions : t.TransactionReceiver.AccountId = a})
            - SumAmounts({t \in transactions : t.TransactionSender.AccountId = a})

\* perform_transaction was called (an endpoint that refuses a request does
\* not call it).
Called(p) == pc[p] # "idle" /\ result[p] # NotCalled
Done(p) == pc[p] = "done"
Amount(p) == ToFloat(req[p].transaction_amount)

\* ---------------------------------------------------------------------- C1
\* C1: in every committed state, whatever the interleaving of the calls and
\* however many units were aborted and run again, the sum of AccountBalance
\* over all accounts is the sum of the initial state.
C1_Conservation == TotalBalance(accounts) = TotalBalance(InitAccounts)

\* Two calls have committed, one of them after its unit was run again.
C1_Witness ==
    \E p, q \in Procs :
        /\ p # q
        /\ result[p].kind = "id" /\ attempt[p] >= 2
        /\ result[q].kind = "id"

\* ---------------------------------------------------------------------- C2
\* The outcomes of a call whose unit was aborted: a write failed, or a write
\* conflict or another transient error was not recovered.
AbortOutcomes == {"step_failed", "conflict", "transient_error"}

\* C2: a call that ended because a write of its unit failed, or because a
\* write conflict or another transient error was not recovered, has left
\* nothing: no transaction, no
\* notification, no RecentTransactions entry of it is in the store and the
\* balances are those the committed transactions alone account for; what is
\* in the store is always whole (every notification and every balance change
\* belongs to a committed transaction).
C2_AllOrNothing ==
    /\ \A p \in Procs :
          (Done(p) /\ outcome[p] \in AbortOutcomes)
              => NoTrace(p)
    /\ Ledger
    /\ \A n \in notifications :
          \E t \in transactions : t._id = n.NotificationTransaction.TransactionId
    /\ \A t \in transactions :
          \E n \in notifications : n.NotificationTransaction.TransactionId = t._id

\* One call was aborted after it had buffered writes while another committed.
C2_Witness ==
    \E p, q \in Procs :
        /\ Done(p) /\ outcome[p] \in AbortOutcomes /\ attempt[p] >= 1
        /\ result[q].kind = "id"

\* ---------------------------------------------------------------------- C3
\* C3: perform_transaction returns a transaction id if and only if the
\* effects of the request were committed; after a failure indicator nothing
\* of the request is in the store.
C3_ReturnMatchesOutcome ==
    \A p \in Procs :
        Done(p) => ((result[p].kind = "id") <=> ~NoTrace(p))

\* ---------------------------------------------------------------------- C4
Rank(doc) ==
    CASE doc.TransactionStatus = "Initiated" -> 1
      [] doc.TransactionStatus = "Completed" -> 2
      [] doc.TransactionStatus = "Notified" -> 3

LifecycleDates ==
    <<"TransactionInitiatedDate", "TransactionCompletedDate",
      "TransactionNotifiedDate">>

\* Status, flags and dates agree, the dates being the first Rank of the three.
WellFormed(doc) ==
    /\ doc.TransactionStatus \in {"Initiated", "Completed", "Notified"}
    /\ doc.TransactionCompleted = (Rank(doc) >= 2)
    /\ doc.TransactionNotified = (Rank(doc) >= 3)
    /\ [i \in 1..Len(doc.TransactionDates) |->
            doc.TransactionDates[i].TransactionDateType]
          = SubSeq(LifecycleDates, 1, Rank(doc))

LifecycleStep(p) ==
    /\ (unit[p].txn = <<>> /\ unit'[p].txn # <<>>)
          => (WellFormed(unit'[p].txn[1]) /\ Rank(unit'[p].txn[1]) = 1)
    /\ (unit[p].txn # <<>> /\ unit'[p].txn # <<>>)
          => /\ WellFormed(unit'[p].txn[1])
             /\ unit'[p].txn[1]._id = unit[p].txn[1]._id
             /\ \/ unit'[p].txn[1] = unit[p].txn[1]
                \/ Rank(unit'[p].txn[1]) = Rank(unit[p].txn[1]) + 1

\* C4: inside its unit a transaction is created Initiated and advances to
\* Completed and then Notified, one status at a time and never back; every
\* transaction in the committed store is Notified, with both flags true and
\* the three dates Initiated, Completed, Notified in that order.
C4_StatusLifecycle ==
    [][ /\ \A p \in Procs : LifecycleStep(p)
        /\ \A t \in transactions' : WellFormed(t) /\ Rank(t) = 3 ]_vars

\* A committed transaction is visible while another unit holds a transaction
\* that is Completed and not yet Notified.
C4_Witness ==
    /\ transactions # {}
    /\ \E p \in Procs :
          unit[p].txn # <<>> /\ unit[p].txn[1].TransactionStatus = "Completed"

\* ---------------------------------------------------------------------- C5
\* C5: when a single call has run (no other transfer ran with it) and has
\* returned a transaction id, the sender account holds its balance from
\* before the call minus the amount and the receiver account its balance from
\* before the call plus the amount.
C5_ExactDeltas ==
    \A p \in Procs :
        (/\ result[p].kind = "id"
         /\ \A q \in Procs \ {p} : pc[q] = "idle")
        => /\ accounts[req[p].account_id_sender].AccountBalance =
                InitAccounts[req[p].account_id_sender].AccountBalance - Amount(p)
           /\ accounts[req[p].account_id_receiver].AccountBalance =
                InitAccounts[req[p].account_id_receiver].AccountBalance + Amount(p)

\* ---------------------------------------------------------------------- C6
AmountErrors == {"amount_not_float", "amount_not_positive", "amount_exceeds_limit"}

\* C6: a call whose amount is <= 0 or > 500 is refused before anything is
\* written (None, no unit, no transaction, balances untouched by it), and an
\* amount in (0, 500], 500 included, is never refused for its size.
C6_AmountBounds ==
    /\ Ledger
    /\ \A p \in Procs :
          (Called(p) /\ AmountParses(req[p].transaction_amount))
          => /\ (Amount(p) <= 0 \/ Amount(p) > 500)
                    => /\ Done(p) /\ result[p] = ReturnNone
                       /\ attempt[p] = 0
                       /\ NoTrace(p)
             /\ (Amount(p) > 0 /\ Amount(p) <= 500)
                    => outcome[p] \notin AmountErrors

\* A transfer of exactly 500 is committed.
C6_Witness ==
    \E p \in Procs : result[p].kind = "id" /\ Amount(p) = 500

\* ---------------------------------------------------------------------- C7
\* The precondition failures of the claim, one operator for each document
\* the call reads.
SenderAccountFails(r, accs) ==
    LET s == r.account_id_sender
    IN \/ s \notin DOMAIN accs
       \/ /\ s \in DOMAIN accs
          /\ \/ accs[s].AccountStatus = "Closed"
             \/ accs[s].AccountBalance < r.transaction_amount.v
             \/ accs[s].AccountNumber # r.sender_account_number
             \/ accs[s].AccountType # r.sender_account_type

SenderUserFails(r, usrs) ==
    \/ r.sender_user_id \notin DOMAIN usrs
    \/ /\ r.sender_user_id \in DOMAIN usrs
       /\ usrs[r.sender_user_id].UserName # r.sender_user_name

ReceiverAccountFails(r, accs) ==
    LET t == r.account_id_receiver
    IN \/ t \notin DOMAIN accs
       \/ /\ t \in DOMAIN accs
          /\ \/ accs[t].AccountStatus = "Closed"
             \/ accs[t].AccountNumber # r.receiver_account_number
             \/ accs[t].AccountType # r.receiver_account_type

ReceiverUserFails(r, usrs) ==
    \/ r.receiver_user_id \notin DOMAIN usrs
    \/ /\ r.receiver_user_id \in DOMAIN usrs
       /\ usrs[r.receiver_user_id].UserName # r.receiver_user_name

\* The call p makes the read it makes at the position at.
Reads(p, at) == pc[p] = at /\ pc'[p] # at

\* The call p is refused in this step and the store is left as it is.
Refused(p) ==
    /\ pc'[p] = "done"
    /\ result'[p] = ReturnNone
    /\ store' = store

\* C7: each of the four documents is read in a step of its own, and a call
\* that finds one of the precondition failures in the document it reads
\* returns None in that step and leaves accounts, users, transactions and
\* notifications as they are; the reads change nothing either, and nothing
\* of a call that ended before its unit ever enters the store.
C7_RejectionsSideEffectFree ==
    [][ \A p \in Procs :
          /\ (/\ pc[p] = "idle" /\ Called(p)'
              /\ AmountParses(req'[p].transaction_amount)
              /\ req'[p].account_id_sender \notin MalformedIds
              /\ SenderAccountFails(req'[p], accounts))
             => Refused(p)
          /\ (/\ Reads(p, "sender_user")
              /\ req[p].sender_user_id \notin MalformedIds
              /\ SenderUserFails(req[p], users))
             => Refused(p)
          /\ (/\ Reads(p, "receiver_account")
              /\ req[p].account_id_receiver \notin MalformedIds
              /\ ReceiverAccountFails(req[p], accounts))
             => Refused(p)
          /\ (/\ Reads(p, "receiver_user")
              /\ req[p].receiver_user_id \notin MalformedIds
              /\ ReceiverUserFails(req[p], users))
             => Refused(p)
          /\ (pc[p] \in {"idle", "sender_user", "receiver_account",
                         "receiver_user"} /\ pc'[p] # pc[p])
             => store' = store /\ unit'[p] = EmptyUnit
          /\ (pc'[p] = "done" /\ attempt'[p] = 0)
             => (TransactionsOf(p)' = {} /\ NotificationsOf(p)' = {}
                 /\ RecentEntriesOf(p)' = {}) ]_vars

\* A call was refused for a closed receiver account while another call
\* committed.
C7_Witness ==
    \E p, q \in Procs :
        /\ Done(p) /\ outcome[p] = "receiver_account_closed"
        /\ result[q].kind = "id"

\* ---------------------------------------------------------------------- C8
\* C8: a call whose sender and receiver usernames are equal and whose sender
\* and receiver account numbers are equal never returns a transaction id,
\* never buffers a write, and nothing of it is in the store (the balances are
\* those of the committed transactions of the other calls).
C8_SelfTransferRejected ==
    /\ Ledger
    /\ \A p \in Procs :
          (/\ Called(p)
           /\ req[p].sender_user_name = req[p].receiver_user_name
           /\ req[p].sender_account_number = req[p].receiver_account_number)
          => /\ result[p].kind # "id"
             /\ unit[p] = EmptyUnit
             /\ NoTrace(p)

\* A transfer to the same account passed the checks before the unit and was
\* refused by the callback.
C8_Witness ==
    \E p \in Procs : Done(p) /\ result[p] = ReturnFalse

\* ---------------------------------------------------------------------- C9
\* The errors of checks 1 to 6, as perform_transaction logs them.
ValidationErrors ==
    AmountErrors \cup
    {"sender_account_not_found", "insufficient_funds", "sender_account_closed",
     "sender_account_mismatch", "sender_user_mismatch",
     "receiver_account_not_found", "receiver_account_closed",
     "receiver_account_mismatch", "receiver_user_mismatch"}

\* Check 7 of the validator.
FailsCheck7(r) ==
    /\ r.sender_user_name = r.receiver_user_name
    /\ r.sender_account_number = r.receiver_account_number

\* C9 as claimed: a request that fails one of the checks 1 to 7 never has a
\* session or unit opened for it.
C9_ValidationPrecedesUnit ==
    \A p \in Procs :
        (Called(p) /\ (outcome[p] \in ValidationErrors \/ FailsCheck7(req[p])))
        => attempt[p] = 0

\* The amount passes checks 1 and 2.
AmountPasses(r) ==
    /\ r.transaction_amount.k = "num"
    /\ r.transaction_amount.v > 0
    /\ r.transaction_amount.v <= 500

\* In this step the call p goes on to next when passes holds and ends
\* otherwise, without a unit either way.
GoesOn(p, passes, next) ==
    /\ pc'[p] = (IF passes THEN next ELSE "done")
    /\ attempt'[p] = 0
    /\ unit'[p] = EmptyUnit

\* C9 as amended: checks 1 to 6 are made one after the other before any unit,
\* each on the document read for it, and a request that fails one of them
\* ends there without a unit: a unit is first opened only after the sixth
\* check has passed.  Check 7 is made by the callback, inside the unit,
\* before any write: for a request that fails it alone a unit is opened and
\* closed with nothing written and nothing changed in the store.
C9_ValidationPrecedesUnitAmended ==
    [][ \A p \in Procs :
          /\ (pc[p] = "idle" /\ Called(p)')
             => GoesOn(p, AmountPasses(req'[p])
                          /\ ~SenderAccountFails(req'[p], accounts),
                       "sender_user")
          /\ Reads(p, "sender_user")
             => GoesOn(p, ~SenderUserFails(req[p], users), "receiver_account")
          /\ Reads(p, "receiver_account")
             => GoesOn(p, ~ReceiverAccountFails(req[p], accounts),
                       "receiver_user")
          /\ Reads(p, "receiver_user")
             => GoesOn(p, ~ReceiverUserFails(req[p], users), "callback")
          /\ (attempt'[p] # attempt[p])
             => /\ pc[p] = "callback"
                /\ attempt'[p] = attempt[p] + 1
                /\ FailsCheck7(req[p])
                      => /\ store' = store
                         /\ unit'[p] = EmptyUnit
                         /\ pc'[p] = "done"
          /\ (pc'[p] = "callback" /\ pc[p] # "callback")
             => (pc[p] = "receiver_user" \/ attempt[p] >= 1) ]_vars

\* A unit was opened for a transfer to the same account, and closed without
\* a write.
C9_Witness ==
    \E p \in Procs :
        /\ Done(p) /\ FailsCheck7(req[p]) /\ attempt[p] = 1
        /\ NoTrace(p)

\* --------------------------------------------------------------------- C10
\* The users the claim expects a reference to the transaction of r for.
ExpectedRecentUsers(r) ==
    IF r.sender_user_name = r.receiver_user_name
       /\ r.sender_account_number # r.receiver_account_number
    THEN {r.sender_user_id}
    ELSE {r.sender_user_id, r.receiver_user_id}

\* C10: an internal transaction has exactly one notification, and its commit
\* appends its id once to the RecentTransactions of the one shared user and
\* of nobody else; any other transaction has exactly two notifications, and
\* its commit appends its id once for the sender user and once for the
\* receiver user, two different users.
C10_FanOut ==
    [][ /\ \A t \in transactions' :
              Cardinality({n \in notifications' :
                              n.NotificationTransaction.TransactionId = t._id})
                  = IF t.TransactionInternal THEN 1 ELSE 2
        /\ \A p \in Procs :
              (pc[p] = "commit" /\ pc'[p] = "done" /\ transactions' # transactions)
              => LET tid == TransactionId(p)
                     exp == ExpectedRecentUsers(req[p])
                 IN /\ Cardinality(exp) = IF IsInternal(req[p]) THEN 1 ELSE 2
                    /\ \A u \in UserIds :
                          Occurrences(users'[u].RecentTransactions, tid)
                              = IF u \in exp THEN 1 ELSE 0 ]_vars

\* An internal and a non-internal transaction are both committed.
C10_Witness ==
    \E t1, t2 \in transactions :
        t1.TransactionInternal /\ ~t2.TransactionInternal


\* --------------------------------------------------------------------- C11
\* The events the claim expects for transaction t, each with the user it is
\* addressed to.
ExpectedEvents(t) ==
    LET su == t.TransactionSender
        ru == t.TransactionReceiver
    IN IF t.TransactionInternal
       THEN {<<"InternalTransfer", su.UserId, su.UserName>>}
       ELSE IF t.TransactionType = "AccountTransfer"
       THEN {<<"TransferSent", su.UserId, su.UserName>>,
             <<"TransferReceived", ru.UserId, ru.UserName>>}
       ELSE {<<"PaymentMade", su.UserId, su.UserName>>,
             <<"PaymentReceived", ru.UserId, ru.UserName>>}

NotificationsAbout(t) ==
    {n \in notifications : n.NotificationTransaction.TransactionId = t._id}

\* C11: the notifications of a committed transaction carry exactly the
\* events of its kind (InternalTransfer; TransferSent and TransferReceived;
\* PaymentMade and PaymentReceived), each addressed to the user of its side;
\* every notification refers to its transaction and names the account id,
\* number and type of both parties.
C11_NotificationTaxonomy ==
    [] /\ \A t \in transactions :
             t.TransactionType \in {"AccountTransfer", "DigitalPayment"}
             => /\ { <<n.NotificationEvent, n.NotificationUser.UserId,
                       n.NotificationUser.UserName>> : n \in NotificationsAbout(t) }
                       = ExpectedEvents(t)
                /\ Cardinality(NotificationsAbout(t)) = Cardinality(ExpectedEvents(t))
       /\ \A n \in notifications :
             \E t \in transactions :
                 /\ n.NotificationTransaction.TransactionId = t._id
                 /\ n.NotificationAccounts =
                       [AccountIdSender |-> t.TransactionSender.AccountId,
                        AccountNumberSender |-> t.TransactionSender.AccountNumber,
                        AccountTypeSender |-> t.TransactionSender.AccountType,
                        AccountIdReceiver |-> t.TransactionReceiver.AccountId,
                        AccountNumberReceiver |-> t.TransactionReceiver.AccountNumber,
                        AccountTypeReceiver |-> t.TransactionReceiver.AccountType]

\* A digital payment and an account transfer between two users are committed.
C11_Witness ==
    \E t1, t2 \in transactions :
        /\ t1.TransactionType = "DigitalPayment"
        /\ t2.TransactionType = "AccountTransfer" /\ ~t2.TransactionInternal

\* --------------------------------------------------------------------- C12
\* C12: no RecentTransactions list ever has more than 20 entries, and a list
\* changes only by an append at its end that, when the list is full, drops
\* the entry at its front: the list is the last (up to 20) references in
\* the order they were appended, the reference of a transfer being the last
\* entry of the lists of its users when it commits.
C12_RecentCap ==
    [][ /\ \A p \in Procs :
              (pc[p] = "commit" /\ pc'[p] = "done" /\ transactions' # transactions)
              => \A u \in {req[p].sender_user_id, req[p].receiver_user_id} :
                    LET new == users'[u].RecentTransactions
                    IN Len(new) >= 1 /\ new[Len(new)].TransactionId = TransactionId(p)
        /\ \A u \in UserIds :
          LET old == users[u].RecentTransactions
              new == users'[u].RecentTransactions
          IN /\ Len(new) <= 20
             /\ new # old
                => /\ Len(new) >= 1
                   /\ new[Len(new)].TransactionId \notin
                         {old[i].TransactionId : i \in 1..Len(old)}
                   /\ IF Len(old) < 20
                      THEN new = Append(old, new[Len(new)])
                      ELSE new = Append(Tail(old), new[Len(new)]) ]_vars

\* A full list has taken a new reference and lost its oldest one.
C12_Witness ==
    \E u \in UserIds :
        LET l == users[u].RecentTransactions
        IN /\ Len(l) = 20
           /\ l[20].TransactionId[1] \in Procs
           /\ l[1].TransactionId = <<0, 2>>

\* --------------------------------------------------------------------- C13
\* C13: a request of type DigitalPayment whose payment method is omitted or
\* "N/A" never has a unit opened and leaves no transaction; every committed
\* DigitalPayment carries a payment method other than "N/A"; no
\* AccountTransfer carries a payment method.
C13_PaymentMethodRule ==
    /\ \A p \in Procs :
          (/\ pc[p] # "idle"
           /\ req[p].transaction_type = "DigitalPayment"
           /\ req[p].payment_method \in {"", "N/A"})
          => attempt[p] = 0 /\ TransactionsOf(p) = {}
    /\ \A t \in transactions :
          /\ t.TransactionType = "DigitalPayment"
                => /\ t.TransactionPaymentMethod # <<>>
                   /\ t.TransactionPaymentMethod # <<"N/A">>
          /\ t.TransactionType = "AccountTransfer"
                => t.TransactionPaymentMethod = <<>>

\* --------------------------------------------------------------------- C14
\* C14: whatever its arguments, an amount of None and malformed ids included,
\* a call of perform_transaction that has ended has returned a transaction id
\* or a failure indicator: no exception has left it.
C14_ErrorsReturned ==
    \A p \in Procs :
        (Called(p) /\ Done(p)) => result[p].kind \in {"id", "None", "False"}

\* --------------------------------------------------------------------- C15
\* C15: a call of perform_transaction that has returned has returned None,
\* unless it returned the id of a transaction that is committed.
C15_FailureIsNone ==
    \A p \in Procs :
        (Called(p) /\ Done(p) /\ result[p] # Raised)
        => \/ result[p] = ReturnNone
           \/ /\ result[p].kind = "id"
              /\ \E t \in transactions : t._id = result[p].id

\* --------------------------------------------------------------------- C16
\* The account documents and the user documents a transfer writes.
AccountsOf(r) == {r.account_id_sender, r.account_id_receiver}
UsersOf(r) == {r.sender_user_id, r.receiver_user_id}

\* The store reports a write conflict to the write p makes next, or p has
\* ended on one.
Conflicted(p) ==
    \/ pc[p] \in LockingSteps /\ WriteConflict(p, Target(p))
    \/ outcome[p] = "conflict"

\* C16 as claimed: a call meets a write conflict (and is aborted, then
\* retried or failed) only when another call has an account id in common
\* with it; sharing a user document does not make two transfers conflict.
C16_DisjointAccountsIndependent ==
    \A p \in Procs :
        Conflicted(p)
        => \E q \in Procs \ {p} :
              /\ Called(q)
              /\ AccountsOf(req[p]) \cap AccountsOf(req[q]) # {}

\* C16 as amended: a call meets a write conflict only when another call has
\* an account id or a user id in common with it: transfers whose account ids
\* and user ids are both disjoint never conflict with each other.  (A unit is
\* also run again after a transient error that is no conflict, which no
\* other call causes.)
C16_DisjointDocumentsIndependent ==
    [][ \A p \in Procs :
          (\/ Conflicted(p)' /\ ~Conflicted(p)
           \/ Conflicted(p) /\ pc'[p] \in {"callback", "done"})
          => \E q \in Procs \ {p} :
                /\ Called(q)
                /\ \/ AccountsOf(req[p]) \cap AccountsOf(req[q]) # {}
                   \/ UsersOf(req[p]) \cap UsersOf(req[q]) # {} ]_vars

\* Two transfers with no account and no user in common have both made all
\* their writes in units that are open at the same time.
C16_Witness ==
    \E p, q \in Procs :
        /\ p # q
        /\ pc[p] = "commit" /\ pc[q] = "commit"
        /\ AccountsOf(req[p]) \cap AccountsOf(req[q]) = {}
        /\ UsersOf(req[p]) \cap UsersOf(req[q]) = {}

\* --------------------------------------------------------------------- C17
\* The users whose RecentTransactions refer to the transaction of r.
RecentUsers(r) == {RecentTargets(r)[k] : k \in 1..Len(RecentTargets(r))}

\* C17: a call that returned a transaction id, after however many attempts,
\* has in the store exactly one transaction, the one with that id; its one
\* (internal) or two notifications, all about that id; one entry for that id
\* in the RecentTransactions of each of its users and no entry of another
\* attempt; and every balance is the initial one plus and minus the amounts
\* of the committed transactions, each counted once.
C17_ExactlyOnce ==
    [] /\ Ledger
       /\ \A p \in Procs :
             result[p].kind = "id"
             => /\ TransactionsOf(p) = {t \in transactions : t._id = result[p].id}
                /\ Cardinality(TransactionsOf(p)) = 1
                /\ \A n \in NotificationsOf(p) :
                      n.NotificationTransaction.TransactionId = result[p].id
                /\ Cardinality(NotificationsOf(p)) =
                      (IF IsInternal(req[p]) THEN 1 ELSE 2)
                /\ \A u \in UserIds :
                      /\ Occurrences(users[u].RecentTransactions, result[p].id) =
                            (IF u \in RecentUsers(req[p]) THEN 1 ELSE 0)
                      /\ \A i \in 1..Len(users[u].RecentTransactions) :
                            users[u].RecentTransactions[i].TransactionId[1] = p
                            => users[u].RecentTransactions[i].TransactionId = result[p].id

\* A call returned the id of the transaction of its second or later attempt.
C17_Witness ==
    \E p \in Procs : result[p].kind = "id" /\ attempt[p] >= 2

\* --------------------------------------------------------------------- C18
\* C18: under fair scheduling every call of perform_transaction ends,
\* whatever the other calls do; a unit is run at most MaxAttempts times, and
\* a conflict or another transient error met by the last run ends the call
\* with None; the result of a call that has ended never changes.
C18_Termination ==
    /\ \A p \in Procs : Called(p) ~> Done(p)
    /\ [](\A p \in Procs : attempt[p] <= MaxAttempts)
    /\ [][ \A p \in Procs :
             /\ (pc[p] \in WriteSteps \cup {"commit"}
                 /\ attempt[p] = MaxAttempts
                 /\ outcome'[p] \in {"conflict", "transient_error"})
                => pc'[p] = "done" /\ result'[p] = ReturnNone
             /\ (pc[p] \in WriteSteps \cup {"commit"}
                 /\ attempt[p] = MaxAttempts)
                => pc'[p] # "callback"
             /\ pc[p] = "done"
                => /\ pc'[p] = "done"
                   /\ result'[p] = result[p]
                   /\ outcome'[p] = outcome[p] ]_vars

\* A call ended with None after its last permitted run met a conflict.
C18_Witness ==
    \E p \in Procs :
        /\ Done(p) /\ outcome[p] = "conflict" /\ result[p] = ReturnNone
        /\ attempt[p] = MaxAttempts

\* --------------------------------------------------------------------- C20
\* C20: in every committed state, whatever the interleaving of the calls,
\* no account has a negative balance.
C20_NoOverdraft ==
    \A a \in AccountIds : accounts[a].AccountBalance >= 0

\* --------------------------------------------------------------------- C19
\* The transactions collection: the documents of earlier runs and those
\* inserted since.
AllTransactions == OldTransactions \cup transactions

\* C19: get_recent_transactions_for_user, for a user named by id or by
\* username and whatever transfers were committed before, changes nothing at
\* either of its reads; it ends at its first read with an empty list when no
\* user matches; otherwise it takes at most 20 entries of the
\* RecentTransactions of the user it read, and what it returns is at most 20
\* transactions of the collection, no two the same, each referenced by those
\* entries, each before those whose latest TransactionDate is earlier, and
\* none when the entries are none.  When nothing was committed between the
\* two reads this is the list of the user in the store.
C19_RecentQuery ==
    [][ /\ reading' # reading
            => UNCHANGED <<store, pc, req, attempt, unit, result, outcome, now>>
        /\ (reading.at = "idle" /\ reading'.op = "get_recent")
            => \E u \in MatchingUsers(reading'.ident, users) :
                  LET list == users[u].RecentTransactions
                      got == reading'.entries
                  IN /\ Len(got) <= 20
                     /\ (list = <<>>) = (got = <<>>)
                     /\ \A i \in 1..Len(got) :
                           \E j \in 1..Len(list) : list[j] = got[i]
        /\ (answer' # answer /\ answer'.op = "get_recent")
            => LET res == answer'.txns
                   got == reading.entries
                   us == MatchingUsers(answer'.for, users)
               IN /\ UNCHANGED <<store, pc, req, attempt, unit, result, outcome, now>>
                  /\ Len(res) <= 20
                  /\ \A i, j \in 1..Len(res) : i # j => res[i]._id # res[j]._id
                  /\ \A i \in 1..Len(res) : res[i] \in AllTransactions
                  /\ \A i \in 1..(Len(res) - 1) :
                        LatestDate(res[i]) >= LatestDate(res[i + 1])
                  /\ us = {} => res = <<>>
                  /\ reading.at = "idle" => (us = {} /\ res = <<>>)
                  /\ reading.at = "find"
                        => /\ got = <<>> => res = <<>>
                           /\ \A i \in 1..Len(res) :
                                 \E j \in 1..Len(got) :
                                     got[j].TransactionId = res[i]._id
                  /\ (\E u \in us : RecentEntries(users[u]) = got)
                        => res \in RecentTransactionsOf(answer'.for, users,
                                                        transactions)
        ]_vars

\* The query returned 20 transactions to a user who has had more than 20:
\* the two latest, committed at different times, then those of earlier runs.
C19_Witness ==
    /\ answer.op = "get_recent"
    /\ Len(answer.txns) = 20
    /\ answer.txns[1]._id[1] \in Procs
    /\ answer.txns[2]._id[1] \in Procs
    /\ LatestDate(answer.txns[1]) > LatestDate(answer.txns[2])
    /\ answer.txns[3]._id[1] = 0

\* --------------------------------------------------------------------- C21
\* C21: in the step that commits a transfer that is not internal, the balance
\* in the notification of the sender is the committed balance of the sender
\* account after the step, and the balance in the notification of the
\* receiver is that of the receiver account.
C21_NotificationBalances ==
    [][ \A p \in Procs :
          (/\ pc[p] = "commit" /\ pc'[p] = "done"
           /\ transactions' # transactions
           /\ ~IsInternal(req[p]))
          => \A n \in notifications' \ notifications :
                /\ n.NotificationEvent \in {"TransferSent", "PaymentMade"}
                      => n.NotificationMessage.Balance =
                            <<accounts'[req[p].account_id_sender].AccountBalance>>
                /\ n.NotificationEvent \in {"TransferReceived", "PaymentReceived"}
                      => n.NotificationMessage.Balance =
                            <<accounts'[req[p].account_id_receiver].AccountBalance>>
      ]_vars

\* --------------------------------------------------------------------- C22
\* C22: no step removes or changes a committed transaction or notification;
\* the step in which a call returns a transaction id adds exactly one
\* transaction and one or two notifications, and no other step adds any.
C22_RecordsImmutable ==
    [][ /\ transactions \subseteq transactions'
        /\ notifications \subseteq notifications'
        /\ \A p \in Procs :
              (result[p].kind # "id" /\ result'[p].kind = "id")
              => /\ Cardinality(transactions' \ transactions) = 1
                 /\ Cardinality(notifications' \ notifications) \in {1, 2}
        /\ (transactions' # transactions \/ notifications' # notifications)
              => \E p \in Procs : result[p].kind # "id" /\ result'[p].kind = "id"
      ]_vars

\* --------------------------------------------------------------------- C23
\* An account but for its balance, a user but for its list.
AccountFrame(acc) == [acc EXCEPT !.AccountBalance = 0]
UserFrame(usr) == [usr EXCEPT !.RecentTransactions = <<>>]

\* The call p is at the step that applies its unit to the store.
Applies(p) == pc[p] = "commit" /\ pc'[p] = "done"

\* C23: among Account and User documents a call changes only the
\* AccountBalance of its sender and receiver accounts and the
\* RecentTransactions of its sender and receiver users, in the writes its unit
\* buffers and in the store, and the store changes only at the step that
\* applies a unit; the status, number, type and currency of every account and
\* the username of every user never change; is_valid_user,
\* get_recent_transactions_for_user and the endpoint over them change nothing
\* at any of their reads.
C23_Frame ==
    [][ /\ DOMAIN accounts' = DOMAIN accounts
        /\ DOMAIN users' = DOMAIN users
        /\ \A a \in DOMAIN accounts :
              /\ AccountFrame(accounts'[a]) = AccountFrame(accounts[a])
              /\ accounts'[a] # accounts[a]
                    => \E p \in Procs :
                          /\ Applies(p)
                          /\ a \in {req[p].account_id_sender,
                                    req[p].account_id_receiver}
        /\ \A u \in DOMAIN users :
              /\ UserFrame(users'[u]) = UserFrame(users[u])
              /\ users'[u] # users[u]
                    => \E p \in Procs :
                          /\ Applies(p)
                          /\ u \in {req[p].sender_user_id,
                                    req[p].receiver_user_id}
        /\ \A p \in Procs :
              /\ DOMAIN unit'[p].accs \subseteq
                    {req'[p].account_id_sender, req'[p].account_id_receiver}
              /\ DOMAIN unit'[p].usrs \subseteq
                    {req'[p].sender_user_id, req'[p].receiver_user_id}
              /\ \A a \in DOMAIN unit'[p].accs :
                    AccountFrame(unit'[p].accs[a]) = AccountFrame(accounts[a])
              /\ \A u \in DOMAIN unit'[p].usrs :
                    UserFrame(unit'[p].usrs[u]) = UserFrame(users[u])
        /\ (answer'.op # "none" \/ reading' # reading)
              => UNCHANGED <<store, pc, req, attempt, unit, result, outcome>>
      ]_vars

\* A transfer from a1 to a3 is committed, the other accounts are as they
\* were, and is_valid_user has just answered True.
C23_Witness ==
    /\ accounts["a1"].AccountBalance < InitAccounts["a1"].AccountBalance
    /\ accounts["a3"].AccountBalance > InitAccounts["a3"].AccountBalance
    /\ accounts["a2"] = InitAccounts["a2"]
    /\ accounts["a5"] = InitAccounts["a5"]
    /\ users["u1"].RecentTransactions # InitUsers["u1"].RecentTransactions
    /\ answer.op = "is_valid_user" /\ answer.valid

\* --------------------------------------------------------------------- C24
\* The user ids of the two sides of a transaction document.
Parties(t) == {t.TransactionSender.UserId, t.TransactionReceiver.UserId}

\* C24: in every committed state every notification names a transaction of
\* the transactions collection of which its addressed user is the sender or
\* the receiver, and every entry of every user's RecentTransactions names a
\* transaction of the collection of which that user is the sender or the
\* receiver.
C24_ReferentialIntegrity ==
    [] /\ \A n \in notifications :
             \E t \in AllTransactions :
                 /\ t._id = n.NotificationTransaction.TransactionId
                 /\ n.NotificationUser.UserId \in Parties(t)
       /\ \A u \in DOMAIN users :
             LET own == {t._id : t \in {x \in AllTransactions : u \in Parties(x)}}
             IN \A i \in 1..Len(users[u].RecentTransactions) :
                   users[u].RecentTransactions[i].TransactionId \in own

\* Two transfers are committed: there are notifications for both users, a
\* new entry in alice's list, and bob's list holds entries of earlier
\* transactions next to new ones.
C24_Witness ==
    /\ Cardinality(transactions) = 2
    /\ \E n \in notifications : n.NotificationUser.UserId = "u1"
    /\ \E n \in notifications : n.NotificationUser.UserId = "u2"
    /\ users["u1"].RecentTransactions # <<>>
    /\ \E i, j \in 1..Len(users["u2"].RecentTransactions) :
          /\ users["u2"].RecentTransactions[i].TransactionId \in
                {t._id : t \in OldTransactions}
          /\ users["u2"].RecentTransactions[j].TransactionId \in
                {t._id : t \in transactions}

\* --------------------------------------------------------------------- C25
\* C25: every committed transaction is flagged internal exactly when its
\* sender and receiver usernames are equal and its sender and receiver account
\* numbers differ, and every transaction flagged internal has the same user
\* id on both sides (a UserName names one user, and each side of a transfer
\* is refused unless the document of its id bears its name).
C25_InternalMeansSameUser ==
    \A t \in AllTransactions :
        /\ t.TransactionInternal =
              (/\ t.TransactionSender.UserName = t.TransactionReceiver.UserName
               /\ t.TransactionSender.AccountNumber #
                     t.TransactionReceiver.AccountNumber)
        /\ t.TransactionInternal
              => t.TransactionSender.UserId = t.TransactionReceiver.UserId

\* A transfer between two accounts of one user is committed and flagged
\* internal, and a call that gave the sender's name for the receiver, whose
\* id is another user's, was refused at the check of the receiver user.
C25_Witness ==
    \E p, q \in Procs :
        /\ Done(p) /\ outcome[p] = "receiver_user_mismatch"
        /\ req[p].sender_user_name = req[p].receiver_user_name
        /\ req[p].sender_user_id # req[p].receiver_user_id
        /\ req[p].sender_account_number # req[p].receiver_account_number
        /\ \E t \in transactions :
              /\ t._id[1] = q
              /\ t.TransactionInternal
              /\ t.TransactionSender.UserId = t.TransactionReceiver.UserId

\* --------------------------------------------------------------------- C26
\* C26: a call whose amount is nan, inf or -inf is rejected with no state
\* change: it never has a unit, it leaves no transaction, notification or
\* list entry, and no balance stops being a finite number.
C26_NonFiniteRejected ==
    /\ \A p \in Procs :
          (pc[p] # "idle" /\ ~IsFinite(Amount(p)))
          => /\ pc[p] = "done"
             /\ result[p] \in {ReturnNone, NotCalled}
             /\ attempt[p] = 0
             /\ NoTrace(p)
    /\ \A a \in DOMAIN accounts : IsFinite(accounts[a].AccountBalance)

\* --------------------------------------------------------------------- C27
\* C27: POST /fetch-recent-transactions-for-user answers 400 when
\* user_identifier is missing or empty and 404 when no user matches the
\* identifier, without calling get_recent_transactions_for_user in either
\* case, and answers 200 with the list otherwise.
C27_FetchStatuses ==
    answer.op = "fetch"
    => LET body == answer.for
       IN IF IdentifierMissing(body)
          THEN answer.status = 400 /\ ~answer.queried
          ELSE IF MatchingUsers(ToIdentifier(body), users) = {}
          THEN answer.status = 404 /\ ~answer.queried
          ELSE answer.status = 200 /\ answer.queried

\* --------------------------------------------------------------------- C28
\* The status a transfer endpoint answers with, res being what
\* perform_transaction gave it: an HTTPException raised in the try block is
\* raised again as it is (400), any other exception is answered 500, a truthy
\* transaction_id 200 and None or False 400.
HttpStatus(r, res) ==
    IF EndpointError(r) = "http_500" THEN 500
    ELSE IF EndpointError(r) # "" THEN 400
    ELSE IF res = Raised THEN 500
    ELSE IF res.kind = "id" THEN 200
    ELSE 400

\* C28: a transfer endpoint answers 400 without calling perform_transaction
\* when the amount is not a number, <= 0 or > 500; it answers 400 when
\* perform_transaction is called and returns no transaction id, and it answers
\* 200 with the id exactly when perform_transaction returned one.
C28_EndpointStatuses ==
    \A p \in Procs :
        (pc[p] = "done" /\ req[p].caller # "core")
        => LET amt == req[p].transaction_amount
               status == HttpStatus(req[p], result[p])
           IN /\ (\/ ~AmountParses(amt)
                  \/ AmountNotPositive(ToFloat(amt))
                  \/ AmountExceedsLimit(ToFloat(amt)))
                    => status = 400 /\ result[p] = NotCalled
              /\ result[p] \in {ReturnNone, ReturnFalse} => status = 400
              /\ (status = 200) = (result[p].kind = "id")

====
